---- MODULE Spec2Model ----
(***************************************************************************)
(* Model of schulessen.py: a script that logs into a school-lunch ordering *)
(* portal, places every available order of the current week view, moves    *)
(* on to the next week and prints a summary per week.                      *)
(*                                                                         *)
(* Python strings are sequences of one-character strings, so that          *)
(* str.split, str.join, strptime and strftime are computed character by    *)
(* character.                                                              *)
(***************************************************************************)
EXTENDS Integers, Sequences, FiniteSets, TLC

\* ------------------------------------------------------------------------
\* Bounds of the model
\* ------------------------------------------------------------------------

\* Largest number of order controls on one week view.
MaxControls == 3

\* Largest number of clicks one week view ignores (the order is not taken
\* and the control stays placeable).
MaxRefusals == 1

\* Longest menu text drawn for the menu-text specification.
MaxText == 9

\* Largest number of "Eine Woche vor" controls a view shows.
MaxNextButtons == 2

\* ------------------------------------------------------------------------
\* Strings
\* ------------------------------------------------------------------------

NL == "\n"
SP == " "

Digits == <<"0", "1", "2", "3", "4", "5", "6", "7", "8", "9">>

IsDigit(c) == \E k \in 1..10 : Digits[k] = c

DigitVal(c) == (CHOOSE k \in 1..10 : Digits[k] = c) - 1

\* s[a..b], the Python slice s[a-1:b]
Slice(s, a, b) == IF a > b THEN <<>> ELSE SubSeq(s, a, b)

\* sep occurs in s at position i
OccursAt(s, sep, i) ==
    /\ i >= 1
    /\ i + Len(sep) - 1 <= Len(s)
    /\ SubSeq(s, i, i + Len(sep) - 1) = sep

\* str.split(sep) for a non-empty sep: cut at the leftmost occurrence, then
\* go on behind it (occurrences never overlap).  The set constructor binds
\* s to the value of str, so that the string is computed once per call.
RECURSIVE split(_, _)
split(str, sep) ==
    LET Parts(s) ==
            IF \E i \in 1..Len(s) : OccursAt(s, sep, i)
            THEN LET i == CHOOSE k \in 1..Len(s) :
                              /\ OccursAt(s, sep, k)
                              /\ \A j \in 1..(k - 1) : ~OccursAt(s, sep, j)
                 IN  <<Slice(s, 1, i - 1)>>
                         \o split(Slice(s, i + Len(sep), Len(s)), sep)
            ELSE <<s>>
    IN  CHOOSE parts \in {Parts(s) : s \in {str}} : TRUE

\* sep.join(parts)
RECURSIVE join(_, _)
join(sep, parts) ==
    IF Len(parts) = 0 THEN <<>>
    ELSE IF Len(parts) = 1 THEN parts[1]
    ELSE parts[1] \o sep \o join(sep, Tail(parts))

\* "--- Couldn't find menu details! ---"
CouldntFindMsg ==
    <<"-", "-", "-", " ", "C", "o", "u", "l", "d", "n", "'", "t", " ",
      "f", "i", "n", "d", " ", "m", "e", "n", "u", " ",
      "d", "e", "t", "a", "i", "l", "s", "!", " ", "-", "-", "-">>

\* The page region two levels up and one sibling back from a control: its
\* text, or NoCell when the page has no such region (find_element raises).
Cell(t) == [found |-> TRUE, text |-> t]
NoCell == [found |-> FALSE, text |-> <<>>]

\* The outcome of a call: a value, or an exception that leaves the callee.
Returned(v) == [raised |-> FALSE, value |-> v]
Raised(e) == [raised |-> TRUE, exc |-> e]

\* Op applied to the value of v: the set constructor makes TLC compute v
\* once, where a LET would compute it again at every use.
With(v, Op(_)) == CHOOSE r \in {Op(x) : x \in {v}} : TRUE

\* menu_details as a plausible slip would have it: the lookup's exception
\* is not caught.
menu_details_propagating(cell) ==
    IF ~cell.found THEN Raised("NoSuchElementException")
    ELSE With(split(cell.text, <<NL, NL>>), LAMBDA menu_sections :
         IF Len(menu_sections) # 3 THEN Returned(cell.text)
         ELSE With(split(menu_sections[2], <<NL>>), LAMBDA main_dish :
              Returned(join(<<SP>>, Slice(main_dish, 1, Len(main_dish) - 1)))))

\* menu_details as a plausible slip would have it: main_dish instead of
\* main_dish[:-1].
menu_details_keep_last_line(cell) ==
    IF ~cell.found THEN Returned(CouldntFindMsg)
    ELSE With(split(cell.text, <<NL, NL>>), LAMBDA menu_sections :
         IF Len(menu_sections) # 3 THEN Returned(cell.text)
         ELSE With(split(menu_sections[2], <<NL>>), LAMBDA main_dish :
              Returned(join(<<SP>>, main_dish))))

\* menu_details(order_button), on the region the button's xpath leads to
\* (cell.text is menu_text).
menu_details(cell) ==
    IF ~cell.found THEN Returned(CouldntFindMsg)
    ELSE With(split(cell.text, <<NL, NL>>), LAMBDA menu_sections :
         IF Len(menu_sections) # 3 THEN Returned(cell.text)
         ELSE With(split(menu_sections[2], <<NL>>), LAMBDA main_dish :
              Returned(join(<<SP>>, Slice(main_dish, 1, Len(main_dish) - 1)))))

\* ------------------------------------------------------------------------
\* Dates
\* ------------------------------------------------------------------------

\* What get_attribute returns: a string, or None when the control has no
\* such attribute.
Str(s) == [isNone |-> FALSE, str |-> s]
None == [isNone |-> TRUE, str |-> <<>>]

IsLeap(y) == (y % 4 = 0 /\ y % 100 # 0) \/ y % 400 = 0

DaysInMonth(y, m) ==
    IF m = 2 THEN (IF IsLeap(y) THEN 29 ELSE 28)
    ELSE IF m \in {4, 6, 9, 11} THEN 30 ELSE 31

AllDigits(s) == \A k \in 1..Len(s) : IsDigit(s[k])

RECURSIVE NumVal(_)
NumVal(s) ==
    IF Len(s) = 0 THEN 0
    ELSE 10 * NumVal(SubSeq(s, 1, Len(s) - 1)) + DigitVal(s[Len(s)])

\* The directive %m: 1[0-2] | 0[1-9] | [1-9]
MatchesMonth(s) ==
    \/ Len(s) = 2 /\ s[1] = "1" /\ s[2] \in {"0", "1", "2"}
    \/ Len(s) = 2 /\ s[1] = "0" /\ IsDigit(s[2]) /\ s[2] # "0"
    \/ Len(s) = 1 /\ IsDigit(s[1]) /\ s[1] # "0"

\* The directive %d: 3[01] | [12]\d | 0[1-9] | [1-9] | " "[1-9]
MatchesDay(s) ==
    \/ Len(s) = 2 /\ s[1] = "3" /\ s[2] \in {"0", "1"}
    \/ Len(s) = 2 /\ s[1] \in {"1", "2"} /\ IsDigit(s[2])
    \/ Len(s) = 2 /\ s[1] \in {"0", SP} /\ IsDigit(s[2]) /\ s[2] # "0"
    \/ Len(s) = 1 /\ IsDigit(s[1]) /\ s[1] # "0"

DayVal(s) == IF s[1] = SP THEN DigitVal(s[2]) ELSE NumVal(s)

\* strptime as a plausible slip would have it: a date that does not parse
\* is replaced by a default.
strptime_defaulting(attr) ==
    Returned([y |-> 1900, m |-> 1, d |-> 1])

\* datetime.strptime(attr, "%Y-%m-%d"): the whole string has to match
\* \d\d\d\d-%m-%d and to name a day of the calendar.  None is a TypeError,
\* everything else that fails a ValueError.
strptime(attr) ==
    IF attr.isNone THEN Raised("TypeError")
    ELSE IF Len(attr.str) < 6 \/ ~AllDigits(SubSeq(attr.str, 1, 4)) \/ attr.str[5] # "-"
    THEN Raised("ValueError")
    ELSE With(split(SubSeq(attr.str, 6, Len(attr.str)), <<"-">>), LAMBDA rest :
         IF Len(rest) # 2 \/ ~MatchesMonth(rest[1]) \/ ~MatchesDay(rest[2])
         THEN Raised("ValueError")
         ELSE LET y == NumVal(SubSeq(attr.str, 1, 4))
                  m == NumVal(rest[1])
                  d == DayVal(rest[2])
              IN  IF y < 1 \/ d > DaysInMonth(y, m)
                  THEN Raised("ValueError")
                  ELSE Returned([y |-> y, m |-> m, d |-> d]))

\* n as decimal digits, zero-padded to width w
RECURSIVE Pad(_, _)
Pad(n, w) == IF w = 0 THEN <<>> ELSE Pad(n \div 10, w - 1) \o <<Digits[(n % 10) + 1]>>

\* date.strftime("%Y-%m-%d")
strftime(date) == Pad(date.y, 4) \o <<"-">> \o Pad(date.m, 2) \o <<"-">> \o Pad(date.d, 2)

\* date comparison of datetime objects
DateLeq(a, b) ==
    \/ a.y < b.y
    \/ a.y = b.y /\ a.m < b.m
    \/ a.y = b.y /\ a.m = b.m /\ a.d <= b.d

\* min(...) and max(...) over a non-empty list of dates
min(dates) == CHOOSE x \in {dates[k] : k \in 1..Len(dates)} :
                  \A k \in 1..Len(dates) : DateLeq(x, dates[k])
max(dates) == CHOOSE x \in {dates[k] : k \in 1..Len(dates)} :
                  \A k \in 1..Len(dates) : DateLeq(dates[k], x)

\* ------------------------------------------------------------------------
\* The portal's pages
\* ------------------------------------------------------------------------

\* Menu texts of the week views: three sections ("S", "a\nb\nx", "F") and
\* two sections ("e", "f").
ThreeSectionText == <<"S", NL, NL, "a", NL, "b", NL, "x", NL, NL, "F">>
TwoSectionText == <<"e", NL, NL, "f">>

\* bstdt attributes of the week views
Attr0108 == <<"2", "0", "2", "4", "-", "0", "1", "-", "0", "8">>
Attr0109 == <<"2", "0", "2", "4", "-", "1", "-", "9">>
Attr0110 == <<"2", "0", "2", "4", "-", "0", "1", "-", "1", "0">>
AttrFeb30 == <<"2", "0", "2", "4", "-", "0", "2", "-", "3", "0">>

\* What a control carries besides its title: the bstdt attribute and the
\* text region before it.
Profiles ==
    { [bstdt |-> Str(Attr0108), cell |-> Cell(ThreeSectionText)],
      [bstdt |-> Str(Attr0109), cell |-> Cell(TwoSectionText)],
      [bstdt |-> Str(Attr0110), cell |-> NoCell],
      [bstdt |-> None, cell |-> Cell(ThreeSectionText)],
      [bstdt |-> Str(AttrFeb30), cell |-> Cell(TwoSectionText)] }

\* title "Bestellen" is kind "plus", title "Bestellung reduzieren" is "minus"
Kinds == {"plus", "minus"}

Controls ==
    { [kind |-> k, bstdt |-> p.bstdt, cell |-> p.cell] : k \in Kinds, p \in Profiles }

\* A week view: its order controls in the page's order.
Pages == UNION { [1..n -> Controls] : n \in 0..MaxControls }

\* strptime and menu_details of what the controls of the week views carry,
\* tabulated so that they are computed once and not at every step.
strptime_table == [a \in {p.bstdt : p \in Profiles} |-> strptime(a)]
menu_details_table == [c \in {p.cell : p \in Profiles} |-> menu_details(c)]

\* The ids of the login form
LoginIds == {"ID_USERNAME", "ID_PASSWORD", "ID_LOGIN"}

\* The argument of every sleep(...) of the script
SettleDelay == 2

VARIABLES
    \* the portal
    page,            \* the order controls of the current view
    ver,             \* how often the current view was re-rendered
    login_page,      \* the ids the login page holds
    has_speiseplan,  \* whether the dashboard holds the "Speiseplan" link
    \* the program
    pc,
    browser,         \* "none", "open", "quit"
    buttons_minus, buttons_plus, orders_old, orders_new,
    minus_pos,       \* position of the for loop in buttons_minus
    button, order_date, menu_text,
    btns_next_week,  \* len(btns_next_week) of the last query
    cnw_ret,         \* what click_next_week_button returned last
    old, new,
    stdout,          \* the lines printed for the current view
    exit_status,     \* <<>> while the process runs, then <<status>>
    uncaught,        \* the exception that ended the process, or "none"
    quit_calls,
    \* clicks and settle delays
    unsettled,       \* a click happened and no sleep since
    last_click,      \* which control the last click hit
    last_sleep,      \* seconds of the last sleep
    \* what happened in the current call of place_new_orders
    entry_plus, entry_minus,  \* placeable and existing controls at its start
    nclicks,                  \* placement clicks
    refusals,                 \* clicks the page ignored
    scans_since_click,        \* queries of the placeable controls since the last click
    clicks_since_scan,        \* placement clicks since the last such query
    nav_clicks,               \* clicks of the current call of click_next_week_button
    events                    \* what the program did to the current view, in order

portal == <<page, ver, login_page, has_speiseplan>>
locals == <<buttons_minus, buttons_plus, orders_old, orders_new, minus_pos,
            button, order_date, menu_text>>
mainvars == <<btns_next_week, cnw_ret, old, new>>
process == <<browser, stdout, exit_status, uncaught, quit_calls>>
settle == <<unsettled, last_click, last_sleep>>
history == <<entry_plus, entry_minus, nclicks, refusals, scans_since_click,
             clicks_since_scan, nav_clicks>>

vars == <<portal, pc, locals, mainvars, process, settle, history, events>>

\* An entry of events: what was done, and to the control at which position
\* (0 when it was not done to one control).
Ev(what, k) == [ev |-> what, idx |-> k]

NoButton == [idx |-> 0, ver |-> 0]
NoDate == [y |-> 0, m |-> 0, d |-> 0]

Init ==
    /\ page = <<>> /\ ver = 0
    /\ login_page = {} /\ has_speiseplan = FALSE
    /\ pc = "main"
    /\ browser = "none"
    /\ buttons_minus = <<>> /\ buttons_plus = <<>>
    /\ orders_old = <<>> /\ orders_new = <<>>
    /\ minus_pos = 0
    /\ button = NoButton /\ order_date = NoDate /\ menu_text = <<>>
    /\ btns_next_week = 0 /\ cnw_ret = "unset"
    /\ old = <<>> /\ new = <<>>
    /\ stdout = <<>>
    /\ exit_status = <<>> /\ uncaught = "none" /\ quit_calls = 0
    /\ unsettled = FALSE /\ last_click = "none" /\ last_sleep = 0
    /\ entry_plus = 0 /\ entry_minus = 0
    /\ nclicks = 0 /\ refusals = 0
    /\ scans_since_click = 0 /\ clicks_since_scan = 0
    /\ nav_clicks = 0
    /\ events = <<>>

\* ------------------------------------------------------------------------
\* Elements
\* ------------------------------------------------------------------------

\* An element reference: the control's position and the rendering it is of.
Ref(k) == [idx |-> k, ver |-> ver]

IsStale(ref) == ref.ver # ver

Positions(kind) ==
    SelectSeq([k \in 1..Len(page) |-> k], LAMBDA k : page[k].kind = kind)

\* browser.find_elements(by="css selector", value=[title=...]), page order
find_elements(kind) ==
    [n \in 1..Len(Positions(kind)) |-> Ref(Positions(kind)[n])]

\* element.get_attribute("bstdt")
get_attribute(ref) ==
    IF IsStale(ref) THEN Raised("StaleElementReferenceException")
    ELSE Returned(page[ref.idx].bstdt)

\* what order_button.find_element(xpath).text leads to inside menu_details
CellOf(ref) == IF IsStale(ref) THEN NoCell ELSE page[ref.idx].cell

\* datetime.strptime(button.get_attribute("bstdt"), "%Y-%m-%d")
ParseDate(ref) ==
    IF get_attribute(ref).raised THEN get_attribute(ref)
    ELSE LET a == get_attribute(ref).value
         IN  IF a \in DOMAIN strptime_table THEN strptime_table[a] ELSE strptime(a)

\* menu_details(button)
MenuOf(ref) ==
    LET c == CellOf(ref)
    IN  IF c \in DOMAIN menu_details_table THEN menu_details_table[c]
        ELSE menu_details(c)

\* An exception nobody catches: traceback, exit status 1.
Crash(exc) ==
    /\ pc' = "crashed"
    /\ uncaught' = exc
    /\ exit_status' = <<1>>
    /\ UNCHANGED <<browser, stdout, quit_calls>>

\* ------------------------------------------------------------------------
\* load_menu_page
\* ------------------------------------------------------------------------

\* setup_logging(); Firefox(options); browser.get(...): the login page loads.
Main_Start ==
    /\ pc = "main"
    /\ browser' = "open"
    /\ \E present \in SUBSET LoginIds : login_page' = present
    /\ pc' = "lmp_find_login"
    /\ UNCHANGED <<page, ver, has_speiseplan, locals, mainvars, stdout,
                   exit_status, uncaught, quit_calls, settle, history>>
    /\ UNCHANGED events

\* The three find_element(by="id") calls; NoSuchElementException is
\* sys.exit(1).
LMP_FindLogin ==
    /\ pc = "lmp_find_login"
    /\ IF login_page = LoginIds
       THEN /\ pc' = "lmp_login"
            /\ UNCHANGED exit_status
       ELSE /\ pc' = "exited"
            /\ exit_status' = <<1>>
    /\ UNCHANGED <<portal, locals, mainvars, browser, stdout, uncaught,
                   quit_calls, settle, history>>
    /\ UNCHANGED events

\* send_keys twice, button_login.click(): the dashboard loads.
LMP_Login ==
    /\ pc = "lmp_login"
    /\ \E link \in BOOLEAN : has_speiseplan' = link
    /\ unsettled' = TRUE
    /\ last_click' = "login"
    /\ pc' = "lmp_find_speiseplan"
    /\ UNCHANGED <<page, ver, login_page, locals, mainvars, process,
                   last_sleep, history>>
    /\ UNCHANGED events

\* The lookup of "Speiseplan" as a plausible slip would have it: the
\* missing link exits with the status of the missing login form.
LMP_FindSpeiseplan_status1 ==
    /\ pc = "lmp_find_speiseplan"
    /\ IF has_speiseplan
       THEN /\ pc' = "lmp_click_speiseplan"
            /\ UNCHANGED exit_status
       ELSE /\ pc' = "exited"
            /\ exit_status' = <<1>>
    /\ UNCHANGED <<portal, locals, mainvars, browser, stdout, uncaught,
                   quit_calls, settle, history>>
    /\ UNCHANGED events

\* browser.find_element(by="link text", value="Speiseplan");
\* NoSuchElementException is sys.exit(2).
LMP_FindSpeiseplan ==
    /\ pc = "lmp_find_speiseplan"
    /\ IF has_speiseplan
       THEN /\ pc' = "lmp_click_speiseplan"
            /\ UNCHANGED exit_status
       ELSE /\ pc' = "exited"
            /\ exit_status' = <<2>>
    /\ UNCHANGED <<portal, locals, mainvars, browser, stdout, uncaught,
                   quit_calls, settle, history>>
    /\ UNCHANGED events

\* speiseplan.click(); return browser.  The dashboard goes and the first
\* week view starts to load.
LMP_ClickSpeiseplan ==
    /\ pc = "lmp_click_speiseplan"
    /\ page' = <<>>
    /\ ver' = 0
    /\ unsettled' = TRUE
    /\ last_click' = "speiseplan"
    /\ pc' = "main_sleep"
    /\ UNCHANGED <<login_page, has_speiseplan, locals, mainvars, process,
                   last_sleep, history>>
    /\ UNCHANGED events

\* sleep(2) before a call of place_new_orders.  The week view the last
\* click asked for has rendered when the delay is over.
Main_Sleep ==
    /\ pc = "main_sleep"
    /\ page' \in Pages
    /\ unsettled' = FALSE
    /\ last_sleep' = SettleDelay
    /\ pc' = "pno_scan"
    /\ UNCHANGED <<ver, login_page, has_speiseplan, locals, mainvars, process,
                   last_click, history>>
    /\ UNCHANGED events

\* ------------------------------------------------------------------------
\* place_new_orders
\* ------------------------------------------------------------------------

CountKind(kind) == Cardinality({k \in 1..Len(page) : page[k].kind = kind})

\* orders_old = [], orders_new = [], the two find_elements calls, and the
\* start of the for loop.
PNO_Scan ==
    /\ pc = "pno_scan"
    /\ orders_old' = <<>>
    /\ orders_new' = <<>>
    /\ buttons_minus' = find_elements("minus")
    /\ buttons_plus' = find_elements("plus")
    /\ minus_pos' = 1
    /\ pc' = IF find_elements("minus") = <<>> THEN "pno_while" ELSE "pno_for"
    /\ entry_plus' = CountKind("plus")
    /\ entry_minus' = CountKind("minus")
    /\ nclicks' = 0
    /\ refusals' = 0
    /\ scans_since_click' = 1
    /\ clicks_since_scan' = 0
    /\ UNCHANGED <<portal, button, order_date, menu_text, mainvars, process,
                   settle, nav_clicks>>
    /\ events' = events \o <<Ev("scan_minus", 0), Ev("scan_plus", 0)>>

\* One pass of "for button in buttons_minus".
PNO_RecordOld ==
    /\ pc = "pno_for"
    /\ \E b \in {buttons_minus[minus_pos]} :
       \E parsed \in {ParseDate(b)}, text \in {MenuOf(b)} :
           /\ button' = b
           /\ IF parsed.raised
              THEN /\ Crash(parsed.exc)
                   /\ UNCHANGED <<orders_old, minus_pos, order_date, menu_text,
                                  events>>
              ELSE IF text.raised
              THEN /\ Crash(text.exc)
                   /\ order_date' = parsed.value
                   /\ UNCHANGED <<orders_old, minus_pos, menu_text, events>>
              ELSE /\ order_date' = parsed.value
                   /\ menu_text' = text.value
                   /\ orders_old' = Append(orders_old,
                                           [date |-> parsed.value, menu |-> text.value])
                   /\ events' = Append(events, Ev("record_old", b.idx))
                   /\ minus_pos' = minus_pos + 1
                   /\ pc' = IF minus_pos = Len(buttons_minus)
                            THEN "pno_while" ELSE "pno_for"
                   /\ UNCHANGED process
    /\ UNCHANGED <<portal, buttons_minus, buttons_plus, orders_new, mainvars,
                   settle, history>>

\* The start of an iteration as a plausible slip would have it:
\* buttons_plus[-1] instead of buttons_plus[0].
PNO_Inspect_last ==
    /\ pc = "pno_while"
    /\ buttons_plus # <<>>
    /\ \E b \in {buttons_plus[Len(buttons_plus)]} :
       \E parsed \in {ParseDate(b)}, text \in {MenuOf(b)} :
           /\ button' = b
           /\ IF parsed.raised
              THEN /\ Crash(parsed.exc)
                   /\ UNCHANGED <<order_date, menu_text>>
              ELSE IF text.raised
              THEN /\ Crash(text.exc)
                   /\ order_date' = parsed.value
                   /\ UNCHANGED menu_text
              ELSE /\ order_date' = parsed.value
                   /\ menu_text' = text.value
                   /\ pc' = "pno_click"
                   /\ UNCHANGED process
    /\ UNCHANGED <<portal, buttons_minus, buttons_plus, orders_old, orders_new,
                   minus_pos, mainvars, settle, history>>
    /\ UNCHANGED events

\* "while buttons_plus" found true, up to the call of menu_details.
PNO_Inspect ==
    /\ pc = "pno_while"
    /\ buttons_plus # <<>>
    /\ \E b \in {buttons_plus[1]} :
       \E parsed \in {ParseDate(b)}, text \in {MenuOf(b)} :
           /\ button' = b
           /\ IF parsed.raised
              THEN /\ Crash(parsed.exc)
                   /\ UNCHANGED <<order_date, menu_text>>
              ELSE IF text.raised
              THEN /\ Crash(text.exc)
                   /\ order_date' = parsed.value
                   /\ UNCHANGED menu_text
              ELSE /\ order_date' = parsed.value
                   /\ menu_text' = text.value
                   /\ pc' = "pno_click"
                   /\ UNCHANGED process
    /\ UNCHANGED <<portal, buttons_minus, buttons_plus, orders_old, orders_new,
                   minus_pos, mainvars, settle, history>>
    /\ UNCHANGED events

\* What a click on a placeable control does to the view: the portal takes
\* the order and shows the control as "Bestellung reduzieren", or it ignores
\* the click and the view stays as it is.
ClickEffect(k, taken) ==
    IF taken THEN [page EXCEPT ![k].kind = "minus"] ELSE page

\* button.click()
PNO_Click ==
    /\ pc = "pno_click"
    /\ IF IsStale(button)
       THEN /\ Crash("StaleElementReferenceException")
            /\ UNCHANGED <<portal, settle, history, events>>
       ELSE /\ \E taken \in BOOLEAN :
                  /\ ~taken => refusals < MaxRefusals
                  /\ page' = ClickEffect(button.idx, taken)
                  /\ ver' = IF taken THEN ver + 1 ELSE ver
                  /\ refusals' = IF taken THEN refusals ELSE refusals + 1
            /\ unsettled' = TRUE
            /\ last_click' = "plus"
            /\ nclicks' = nclicks + 1
            /\ events' = Append(events, Ev("click", button.idx))
            /\ clicks_since_scan' = clicks_since_scan + 1
            /\ scans_since_click' = 0
            /\ pc' = "pno_sleep"
            /\ UNCHANGED <<login_page, has_speiseplan, process, last_sleep,
                           entry_plus, entry_minus, nav_clicks>>
    /\ UNCHANGED <<locals, mainvars>>

\* The loop as a plausible slip would have it: no sleep after the click.
PNO_Sleep_skipped ==
    /\ pc = "pno_sleep"
    /\ pc' = "pno_rescan"
    /\ UNCHANGED <<portal, locals, mainvars, process, settle, history>>
    /\ UNCHANGED events

\* sleep(2)
PNO_Sleep ==
    /\ pc = "pno_sleep"
    /\ unsettled' = FALSE
    /\ last_sleep' = SettleDelay
    /\ pc' = "pno_rescan"
    /\ UNCHANGED <<portal, locals, mainvars, process, last_click, history>>
    /\ UNCHANGED events

\* The end of an iteration as a plausible slip would have it: the clicked
\* control is dropped from the list of the first query.
PNO_Rescan_stale_list ==
    /\ pc = "pno_rescan"
    /\ orders_new' = Append(orders_new, [date |-> order_date, menu |-> menu_text])
    /\ buttons_plus' = Tail(buttons_plus)
    /\ pc' = "pno_while"
    /\ UNCHANGED <<portal, buttons_minus, orders_old, minus_pos, button,
                   order_date, menu_text, mainvars, process, settle, history>>
    /\ UNCHANGED events

\* The end of an iteration as a plausible slip would have it: the list is
\* left as it is.
PNO_Rescan_no_query ==
    /\ pc = "pno_rescan"
    /\ orders_new' = Append(orders_new, [date |-> order_date, menu |-> menu_text])
    /\ pc' = "pno_while"
    /\ UNCHANGED <<portal, buttons_minus, buttons_plus, orders_old, minus_pos,
                   button, order_date, menu_text, mainvars, process, settle,
                   history>>
    /\ UNCHANGED events

\* The end of an iteration as the docstring of place_new_orders has it: one
\* click, and the loop is over.
PNO_Rescan_once ==
    /\ pc = "pno_rescan"
    /\ orders_new' = Append(orders_new, [date |-> order_date, menu |-> menu_text])
    /\ buttons_plus' = <<>>
    /\ pc' = "pno_while"
    /\ UNCHANGED <<portal, buttons_minus, orders_old, minus_pos, button,
                   order_date, menu_text, mainvars, process, settle, history>>
    /\ UNCHANGED events

\* The end of an iteration as a plausible slip would have it: both
\* control sets are queried again.
PNO_Rescan_both_sets ==
    /\ pc = "pno_rescan"
    /\ orders_new' = Append(orders_new, [date |-> order_date, menu |-> menu_text])
    /\ buttons_minus' = find_elements("minus")
    /\ buttons_plus' = find_elements("plus")
    /\ scans_since_click' = scans_since_click + 1
    /\ clicks_since_scan' = 0
    /\ pc' = "pno_while"
    /\ UNCHANGED <<portal, orders_old, minus_pos, button,
                   order_date, menu_text, mainvars, process, settle,
                   entry_plus, entry_minus, nclicks, refusals, nav_clicks>>
    /\ events' = events \o <<Ev("scan_minus", 0), Ev("scan_plus", 0)>>

\* The end of an iteration as a plausible slip would have it: the call
\* starts over with its queries and records the existing controls again.
PNO_Rescan_rerecord ==
    /\ pc = "pno_rescan"
    /\ orders_new' = Append(orders_new, [date |-> order_date, menu |-> menu_text])
    /\ buttons_minus' = find_elements("minus")
    /\ buttons_plus' = find_elements("plus")
    /\ minus_pos' = 1
    /\ scans_since_click' = scans_since_click + 1
    /\ clicks_since_scan' = 0
    /\ pc' = IF find_elements("minus") = <<>> THEN "pno_while" ELSE "pno_for"
    /\ UNCHANGED <<portal, orders_old, button,
                   order_date, menu_text, mainvars, process, settle,
                   entry_plus, entry_minus, nclicks, refusals, nav_clicks>>
    /\ events' = events \o <<Ev("scan_minus", 0), Ev("scan_plus", 0)>>

\* orders_new.append(...); buttons_plus = browser.find_elements(...)
PNO_Rescan ==
    /\ pc = "pno_rescan"
    /\ orders_new' = Append(orders_new, [date |-> order_date, menu |-> menu_text])
    /\ buttons_plus' = find_elements("plus")
    /\ scans_since_click' = scans_since_click + 1
    /\ clicks_since_scan' = 0
    /\ pc' = "pno_while"
    /\ UNCHANGED <<portal, buttons_minus, orders_old, minus_pos, button,
                   order_date, menu_text, mainvars, process, settle,
                   entry_plus, entry_minus, nclicks, refusals, nav_clicks>>
    /\ events' = Append(events, Ev("scan_plus", 0))

\* "while buttons_plus" found false: return orders_old, orders_new, and the
\* caller's "old, new = ...".  The callee's locals are gone.
PNO_Return ==
    /\ pc = "pno_while"
    /\ buttons_plus = <<>>
    /\ old' = orders_old
    /\ new' = orders_new
    /\ buttons_minus' = <<>>
    /\ buttons_plus' = <<>>
    /\ orders_old' = <<>>
    /\ orders_new' = <<>>
    /\ minus_pos' = 0
    /\ button' = NoButton
    /\ order_date' = NoDate
    /\ menu_text' = <<>>
    /\ pc' = "main_print"
    /\ UNCHANGED <<portal, btns_next_week, cnw_ret, process, settle, history>>
    /\ events' = Append(events, Ev("return", 0))

\* ------------------------------------------------------------------------
\* print_orders
\* ------------------------------------------------------------------------

DatesOf(orders) == [k \in 1..Len(orders) |-> orders[k].date]

OrderLines(tag, orders) ==
    [k \in 1..Len(orders) |->
        [line |-> tag, date |-> strftime(orders[k].date), menu |-> orders[k].menu]]

\* print_orders as a plausible slip would have it: the header takes the
\* dates of the first and of the last record.
print_orders_first_last(o, n) ==
    IF o = <<>> /\ n = <<>> THEN <<>>
    ELSE <<[line |-> "summary",
            dt_min |-> strftime((o \o n)[1].date),
            dt_max |-> strftime((o \o n)[Len(o \o n)].date)]>>
         \o (IF o # <<>>
             THEN <<[line |-> "existing orders"]>> \o OrderLines("existing", o)
             ELSE <<>>)
         \o (IF n # <<>>
             THEN <<[line |-> "newly placed orders"]>> \o OrderLines("new", n)
             ELSE <<>>)

\* The lines print_orders(old, new) prints.
print_orders(o, n) ==
    IF o = <<>> /\ n = <<>> THEN <<>>
    ELSE With(DatesOf(o \o n), LAMBDA dates :
         <<[line |-> "summary",
            dt_min |-> strftime(min(dates)),
            dt_max |-> strftime(max(dates))]>>
         \o (IF o # <<>>
             THEN <<[line |-> "existing orders"]>> \o OrderLines("existing", o)
             ELSE <<>>)
         \o (IF n # <<>>
             THEN <<[line |-> "newly placed orders"]>> \o OrderLines("new", n)
             ELSE <<>>))

\* print_orders(old, new) in the main program
Main_Print ==
    /\ pc = "main_print"
    /\ \E lines \in {print_orders(old, new)} : stdout' = stdout \o lines
    /\ pc' = "cnw_find"
    /\ UNCHANGED <<portal, locals, mainvars, browser, exit_status, uncaught,
                   quit_calls, settle, history>>
    /\ events' = Append(events, Ev("print", 0))

\* ------------------------------------------------------------------------
\* click_next_week_button and the end of the main program
\* ------------------------------------------------------------------------

\* The test as a plausible slip would have it: "not btns_next_week".
NoSingleButton_none(n) == n = 0

\* len(btns_next_week) != 1
NoSingleButton(n) == n # 1

\* click_next_week_button as a plausible slip would have it: a week
\* without orders is taken for the end of the order period.
CNW_Find_stop_on_empty_week ==
    /\ pc = "cnw_find"
    /\ \E n \in 0..MaxNextButtons :
          /\ btns_next_week' = n
          /\ IF NoSingleButton(n) \/ (old = <<>> /\ new = <<>>)
             THEN /\ cnw_ret' = "False"
                  /\ pc' = "main_end"
             ELSE /\ cnw_ret' = "unset"
                  /\ pc' = "cnw_click"
    /\ nav_clicks' = 0
    /\ UNCHANGED <<portal, locals, old, new, process, settle, entry_plus,
                   entry_minus, nclicks, refusals, scans_since_click,
                   clicks_since_scan>>
    /\ UNCHANGED events

\* browser.find_elements([alt="Eine Woche vor"]) and the test of its length;
\* "return False" ends the while loop of the main program.
CNW_Find ==
    /\ pc = "cnw_find"
    /\ \E n \in 0..MaxNextButtons :
          /\ btns_next_week' = n
          /\ IF NoSingleButton(n)
             THEN /\ cnw_ret' = "False"
                  /\ pc' = "main_end"
             ELSE /\ cnw_ret' = "unset"
                  /\ pc' = "cnw_click"
    /\ nav_clicks' = 0
    /\ UNCHANGED <<portal, locals, old, new, process, settle, entry_plus,
                   entry_minus, nclicks, refusals, scans_since_click,
                   clicks_since_scan>>
    /\ UNCHANGED events

\* print("====== Navigating to next week... ======"); btns_next_week[0].click();
\* return True.  The current view goes and the next week view starts to
\* load.  stdout starts over with the lines of the new view; old and new
\* are not read again before line 232 assigns them, and what the history
\* variables hold of the last call of place_new_orders is dropped.
CNW_Click ==
    /\ pc = "cnw_click"
    /\ stdout' = <<[line |-> "navigating"]>>
    /\ page' = <<>>
    /\ ver' = 0
    /\ unsettled' = TRUE
    /\ last_click' = "next_week"
    /\ nav_clicks' = nav_clicks + 1
    /\ cnw_ret' = "True"
    /\ old' = <<>>
    /\ new' = <<>>
    /\ entry_plus' = 0 /\ entry_minus' = 0
    /\ nclicks' = 0 /\ refusals' = 0
    /\ scans_since_click' = 0 /\ clicks_since_scan' = 0
    /\ pc' = "main_sleep"
    /\ UNCHANGED <<login_page, has_speiseplan, locals, btns_next_week, browser,
                   exit_status, uncaught, quit_calls, last_sleep>>
    /\ events' = <<Ev("navigate", 0)>>

\* print("No more 'next week' button found, ..."); browser.quit()
Main_End ==
    /\ pc = "main_end"
    /\ stdout' = Append(stdout, [line |-> "end of order period"])
    /\ browser' = "quit"
    /\ quit_calls' = quit_calls + 1
    /\ exit_status' = <<0>>
    /\ pc' = "done"
    /\ UNCHANGED <<portal, locals, mainvars, uncaught, settle, history>>
    /\ UNCHANGED events

\* ------------------------------------------------------------------------
\* The run
\* ------------------------------------------------------------------------

Next ==
    \/ Main_Start
    \/ LMP_FindLogin
    \/ LMP_Login
    \/ LMP_FindSpeiseplan
    \/ LMP_ClickSpeiseplan
    \/ Main_Sleep
    \/ PNO_Scan
    \/ PNO_RecordOld
    \/ PNO_Inspect
    \/ PNO_Click
    \/ PNO_Sleep
    \/ PNO_Rescan
    \/ PNO_Return
    \/ Main_Print
    \/ CNW_Find
    \/ CNW_Click
    \/ Main_End

Spec == Init /\ [][Next]_vars

\* One thread runs the script: while a step is possible, one is taken.
FairSpec == Spec /\ WF_vars(Next)

\* ------------------------------------------------------------------------
\* menu_details on arbitrary menu texts
\* ------------------------------------------------------------------------

MenuAlphabet == {NL, "a"}

MenuTexts == UNION { [1..n -> MenuAlphabet] : n \in 0..MaxText }

\* place_new_orders of the first week view has queried a view of one
\* existing order, whose menu text is any text of MenuTexts.
InitMenu ==
    /\ \E t \in MenuTexts :
          page = <<[kind |-> "minus", bstdt |-> Str(Attr0108), cell |-> Cell(t)]>>
    /\ ver = 0
    /\ login_page = LoginIds /\ has_speiseplan = TRUE
    /\ pc = "pno_for"
    /\ browser = "open"
    /\ buttons_minus = <<[idx |-> 1, ver |-> 0]>> /\ buttons_plus = <<>>
    /\ orders_old = <<>> /\ orders_new = <<>>
    /\ minus_pos = 1
    /\ button = NoButton /\ order_date = NoDate /\ menu_text = <<>>
    /\ btns_next_week = 0 /\ cnw_ret = "unset"
    /\ old = <<>> /\ new = <<>>
    /\ stdout = <<>>
    /\ exit_status = <<>> /\ uncaught = "none" /\ quit_calls = 0
    /\ unsettled = FALSE /\ last_click = "speiseplan" /\ last_sleep = SettleDelay
    /\ entry_plus = 0 /\ entry_minus = 1
    /\ nclicks = 0 /\ refusals = 0
    /\ scans_since_click = 1 /\ clicks_since_scan = 0
    /\ nav_clicks = 0
    /\ events = <<Ev("scan_minus", 0), Ev("scan_plus", 0)>>

NextMenu ==
    \/ PNO_RecordOld
    \/ PNO_Return
    \/ Main_Print

SpecMenu == InitMenu /\ [][NextMenu]_vars

\* ------------------------------------------------------------------------
\* Properties
\* ------------------------------------------------------------------------

\* The places where a text has "\n\n", found from the left, no two of them
\* overlapping.
RECURSIVE Boundaries(_, _)
Boundaries(t, from) ==
    IF from + 1 > Len(t) THEN <<>>
    ELSE IF t[from] = NL /\ t[from + 1] = NL
    THEN <<from>> \o Boundaries(t, from + 2)
    ELSE Boundaries(t, from + 1)

\* The section between the two boundaries of a text of three sections.
MiddleSection(t) ==
    LET b == Boundaries(t, 1) IN Slice(t, b[1] + 2, b[2] - 1)

\* Where the last line of a section starts: behind its last newline.
LastNewline(sec) ==
    IF \E k \in 1..Len(sec) : sec[k] = NL
    THEN CHOOSE k \in 1..Len(sec) :
            sec[k] = NL /\ \A j \in (k + 1)..Len(sec) : sec[j] # NL
    ELSE 0

\* r is the section without its last line, every newline turned into a space.
IsDishSummary(r, sec) ==
    /\ Len(r) = (IF LastNewline(sec) = 0 THEN 0 ELSE LastNewline(sec) - 1)
    /\ \A k \in 1..Len(r) : r[k] = (IF sec[k] = NL THEN SP ELSE sec[k])

\* What menu_details owes for a control's region.
IsMenuTextOf(r, cell) ==
    IF ~cell.found THEN r = CouldntFindMsg
    ELSE IF Len(Boundaries(cell.text, 1)) = 2
    THEN IsDishSummary(r, MiddleSection(cell.text))
    ELSE r = cell.text

\* C9: menu_details on a text of exactly three sections (two "\n\n"
\* boundaries) returns the middle section without its last line, its other
\* newlines turned into single spaces; on a text of any other number of
\* sections it returns the text unchanged.
C9_MenuDetails ==
    (pc # "pno_for" /\ Len(page) = 1 /\ page[1].cell.found) =>
        LET t == page[1].cell.text
            recs == IF pc = "pno_while" THEN orders_old ELSE old
            r == recs[1].menu
        IN  /\ Len(recs) = 1
            /\ IF Len(Boundaries(t, 1)) = 2
               THEN IsDishSummary(r, MiddleSection(t))
               ELSE r = t

\* C9 witness: "\n\na\na\na\n\n" has come back as "a a".
C9_Witness ==
    /\ pc = "pno_while"
    /\ page[1].cell.text = <<NL, NL, "a", NL, "a", NL, "a", NL, NL>>
    /\ orders_old[1].menu = <<"a", SP, "a">>

Date(y, m, d) == [y |-> y, m |-> m, d |-> d]

C2_OneClickPerScan ==
    /\ clicks_since_scan <= 1
    /\ pc = "pno_click" =>
          /\ scans_since_click = 1
          /\ buttons_plus = find_elements("plus")
          /\ \E k \in 1..Len(buttons_plus) : button = buttons_plus[k]
          /\ ~IsStale(button)

\* C2 witness: the second click of a call is about to happen.
C2_Witness ==
    /\ pc = "pno_click"
    /\ nclicks = 1
    /\ scans_since_click = 1

QueryPcs == {"pno_scan", "pno_for", "pno_while", "pno_rescan", "cnw_find"}

\* C4: after a click on a placeable control or on the next-week control
\* the next thing the program does is sleep(2); no query of the page comes
\* before that sleep is over.
C4_SettleAfterClick ==
    /\ (unsettled /\ last_click \in {"plus", "next_week"})
          => pc \in {"pno_sleep", "main_sleep"}
    /\ (pc \in QueryPcs /\ last_click \in {"plus", "next_week"})
          => (~unsettled /\ last_sleep = 2)

\* C4 witness: in a week reached by a next-week click, a placement click
\* has been slept over and the re-query is next.
C4_Witness ==
    /\ pc = "pno_rescan"
    /\ last_click = "plus"
    /\ ~unsettled
    /\ last_sleep = 2
    /\ stdout = <<[line |-> "navigating"]>>

\* C5: click_next_week_button returns False without a click when the view
\* has no or several "Eine Woche vor" controls, and True after exactly one
\* click when it has one.
C5_NextWeek ==
    /\ pc = "cnw_click" => btns_next_week = 1
    /\ pc = "main_end" => cnw_ret = "False"
    /\ cnw_ret = "False" => (btns_next_week # 1 /\ nav_clicks = 0)
    /\ cnw_ret = "True" => (btns_next_week = 1 /\ nav_clicks = 1)
    /\ (cnw_ret = "unset" /\ pc # "cnw_click") => nav_clicks = 0

\* C5 witness: after a navigation, a view with two such controls has made
\* the call return False.
C5_Witness ==
    /\ pc = "main_end"
    /\ btns_next_week = 2
    /\ cnw_ret = "False"
    /\ stdout # <<>>
    /\ stdout[1] = [line |-> "navigating"]

\* The bstdt attributes that name a day, and the day each names.
GoodAttrs == {Str(Attr0108), Str(Attr0109), Str(Attr0110)}
GoodDates == {Date(2024, 1, 8), Date(2024, 1, 9), Date(2024, 1, 10)}

RecordsNow ==
    {orders_old[k] : k \in 1..Len(orders_old)}
        \cup {orders_new[k] : k \in 1..Len(orders_new)}
        \cup {old[k] : k \in 1..Len(old)}
        \cup {new[k] : k \in 1..Len(new)}

\* C6: a control whose bstdt is missing or names no day makes
\* place_new_orders fail with the parse error: the call does not return,
\* no record carries a date that is not the date of a control, and a
\* control that is or was clicked has a date.
C6_BadDateIsFatal ==
    /\ \A r \in RecordsNow : r.date \in GoodDates
    /\ pc = "main_print" => \A k \in 1..Len(page) : page[k].bstdt \in GoodAttrs
    /\ pc \in {"pno_click", "pno_sleep", "pno_rescan"}
          => page[button.idx].bstdt \in GoodAttrs
    /\ uncaught \in {"TypeError", "ValueError"}
          => (pc = "crashed" /\ page[button.idx].bstdt \notin GoodAttrs)
    /\ (pc \in {"pno_for", "pno_while", "pno_click", "pno_sleep", "pno_rescan"}
          /\ button # NoButton)
          => (page[button.idx].bstdt \in GoodAttrs /\ order_date \in GoodDates)

\* C6 witness: after an existing order was recorded and one order placed,
\* the next placeable control has no day in its bstdt and the run is over.
C6_Witness ==
    /\ pc = "crashed"
    /\ uncaught = "ValueError"
    /\ Len(orders_old) = 1
    /\ Len(orders_new) = 1
    /\ page[button.idx].bstdt = Str(AttrFeb30)
    /\ page[button.idx].kind = "plus"

\* C7: missing login elements end the run with status 1, a missing
\* "Speiseplan" link ends it with status 2, and on both ways no order
\* control was queried or clicked and no week navigation happened.
C7_SetupExits ==
    /\ pc = "exited" =>
          /\ \/ exit_status = <<1>> /\ login_page # LoginIds
             \/ exit_status = <<2>> /\ login_page = LoginIds /\ ~has_speiseplan
          /\ last_click \in {"none", "login"}
          /\ scans_since_click = 0 /\ nclicks = 0 /\ nav_clicks = 0
          /\ buttons_minus = <<>> /\ buttons_plus = <<>>
          /\ stdout = <<>> /\ page = <<>>
    /\ (login_page # LoginIds /\ pc \notin {"main", "lmp_find_login"})
          => (pc = "exited" /\ exit_status = <<1>>)
    /\ (login_page = LoginIds /\ ~has_speiseplan
          /\ pc \notin {"main", "lmp_find_login", "lmp_login", "lmp_find_speiseplan"})
          => (pc = "exited" /\ exit_status = <<2>>)

\* C7 witness: the login worked and the dashboard has no "Speiseplan".
C7_Witness ==
    /\ pc = "exited"
    /\ exit_status = <<2>>
    /\ login_page = LoginIds
    /\ last_click = "login"

\* C8: no exception of the menu-text lookup leaves menu_details: the text
\* recorded for a control is the placeholder when its region is missing and
\* the raw text when that has not three sections, all existing controls get
\* their record and a placeable control goes on to its click.
C8_MenuTextNeverFatal ==
    /\ uncaught # "NoSuchElementException"
    /\ \A k \in 1..Len(orders_old) :
          IsMenuTextOf(orders_old[k].menu, page[buttons_minus[k].idx].cell)
    /\ pc \in {"pno_click", "pno_sleep", "pno_rescan"}
          => IsMenuTextOf(menu_text, page[button.idx].cell)
    /\ pc = "pno_while" => Len(orders_old) = entry_minus
    /\ pc = "main_print" => (Len(old) = entry_minus /\ Len(new) = nclicks)

\* C8 witness: an existing control of a two-section text is recorded with
\* the raw text, and a placeable control without a text region has been
\* clicked with the placeholder as its text.
C8_Witness ==
    /\ pc = "pno_rescan"
    /\ ~page[button.idx].cell.found
    /\ menu_text = CouldntFindMsg
    /\ Len(orders_old) = 1
    /\ orders_old[1].menu = TwoSectionText

\* A date as a number that grows with the calendar.
DayNumber(date) == date.y * 10000 + date.m * 100 + date.d

\* The text "YYYY-MM-DD" of the days the week views name.
Text0109 == <<"2", "0", "2", "4", "-", "0", "1", "-", "0", "9">>
IsoText(date) ==
    CASE date = Date(2024, 1, 8) -> Attr0108
      [] date = Date(2024, 1, 9) -> Text0109
      [] date = Date(2024, 1, 10) -> Attr0110

\* The lines of stdout that print_orders wrote.
SummaryLines ==
    SelectSeq(stdout, LAMBDA l : l.line \notin {"navigating", "end of order period"})

\* C10: print_orders prints nothing for two empty lists; otherwise its
\* header names the earliest and the latest date among the existing and
\* the new records.
C10_Summary ==
    pc = "cnw_find" =>
        LET dates == {old[k].date : k \in 1..Len(old)}
                         \cup {new[k].date : k \in 1..Len(new)}
        IN  IF dates = {}
            THEN SummaryLines = <<>>
            ELSE /\ SummaryLines[1].line = "summary"
                 /\ \E lo \in dates, hi \in dates :
                       /\ \A d \in dates : DayNumber(lo) <= DayNumber(d)
                       /\ \A d \in dates : DayNumber(d) <= DayNumber(hi)
                       /\ SummaryLines[1].dt_min = IsoText(lo)
                       /\ SummaryLines[1].dt_max = IsoText(hi)

\* C10 witness: existing 9th, new 10th and 8th: the header reads
\* 2024-01-08 to 2024-01-10.
C10_Witness ==
    /\ pc = "cnw_find"
    /\ DatesOf(old) = <<Date(2024, 1, 9)>>
    /\ DatesOf(new) = <<Date(2024, 1, 10), Date(2024, 1, 8)>>
    /\ SummaryLines[1].dt_min = Attr0108
    /\ SummaryLines[1].dt_max = Attr0110

\* C11: no element of a query made before a click is used after that
\* click: the run never ends by a stale element reference, every element
\* about to be read or clicked is of the current rendering, the existing
\* controls are read only before the first click, and the placeable
\* controls the loop works on are those of a query made after the last
\* click.
C11_NoStaleUse ==
    /\ uncaught # "StaleElementReferenceException"
    /\ pc = "pno_for" => (nclicks = 0 /\ ~IsStale(buttons_minus[minus_pos]))
    /\ pc = "pno_while" =>
          /\ buttons_plus = find_elements("plus")
          /\ \A k \in 1..Len(buttons_plus) : ~IsStale(buttons_plus[k])
    /\ pc = "pno_click" => ~IsStale(button)

\* C11 witness: a click was taken and the view re-rendered; the elements of
\* the existing controls, queried before it, are stale and still held,
\* and the control about to be clicked is of the new rendering.
C11_Witness ==
    /\ pc = "pno_click"
    /\ nclicks = 1 /\ ver = 1
    /\ buttons_minus # <<>>
    /\ IsStale(buttons_minus[1])
    /\ button.ver = 1

\* The positions of the placement clicks of the current view, in the order
\* of the clicks.
Clicked ==
    LET clicks == SelectSeq(events, LAMBDA e : e.ev = "click")
    IN  [k \in 1..Len(clicks) |-> clicks[k].idx]

\* The positions of the controls recorded as existing orders.
Recorded ==
    LET recs == SelectSeq(events, LAMBDA e : e.ev = "record_old")
    IN  [k \in 1..Len(recs) |-> recs[k].idx]

\* The day a bstdt attribute of the week views names.
DayOf(attr) ==
    CASE attr = Str(Attr0108) -> Date(2024, 1, 8)
      [] attr = Str(Attr0109) -> Date(2024, 1, 9)
      [] attr = Str(Attr0110) -> Date(2024, 1, 10)

\* r is the record of the control at position k.
IsRecordOf(r, k) ==
    /\ page[k].bstdt \in GoodAttrs
    /\ r.date = DayOf(page[k].bstdt)
    /\ IsMenuTextOf(r.menu, page[k].cell)

\* The new records so far: the callee's list during the call and after an
\* uncaught exception, the caller's afterwards.
InCallPcs == {"pno_scan", "pno_for", "pno_while", "pno_click", "pno_sleep",
              "pno_rescan", "crashed"}
NewSoFar == IF pc \in InCallPcs THEN orders_new ELSE new
OldSoFar == IF pc \in InCallPcs THEN orders_old ELSE old

\* The view of the scenario: the control dated 2024-01-08 was recorded as
\* existing, the two others are dated 2024-01-09 and 2024-01-10, in this
\* order on the page, and were placeable.
IsScenarioView ==
    /\ Len(page) = 3
    /\ entry_minus = 1 /\ entry_plus = 2
    /\ Len(Recorded) = 1
    /\ page[Recorded[1]].bstdt = Str(Attr0108)
    /\ \E i, j \in 1..3 :
          /\ i < j
          /\ page[i].bstdt = Str(Attr0109)
          /\ page[j].bstdt = Str(Attr0110)

Count(what) == Len(SelectSeq(events, LAMBDA e : e.ev = what))

\* C13: the views are processed one after the other.  Before a call of
\* place_new_orders has returned nothing of the view is printed; a
\* navigation attempt, and the end of the run, come after exactly one
\* complete call of place_new_orders on the current view and exactly one
\* print_orders behind it; whatever the view held, the attempt goes on to
\* the click when the view shows one next-week control; the end-of-period
\* message and browser.quit() come only after click_next_week_button
\* returned False.
C13_WeeksInSequence ==
    /\ pc \in {"main_sleep", "pno_scan", "pno_for", "pno_while", "pno_click",
                "pno_sleep", "pno_rescan"}
          => (Count("return") = 0 /\ Count("print") = 0)
    /\ pc = "main_print" => (Count("return") = 1 /\ Count("print") = 0)
    /\ pc \in {"cnw_find", "cnw_click", "main_end", "done"} =>
          /\ Count("return") = 1 /\ Count("print") = 1
          /\ Len(events) >= 4
          /\ events[Len(events) - 1] = Ev("return", 0)
          /\ events[Len(events)] = Ev("print", 0)
          /\ Count("scan_minus") = 1
    /\ pc = "cnw_find" => ENABLED (CNW_Find /\ pc' = "cnw_click")
    /\ pc \in {"main_end", "done"} => (cnw_ret = "False" /\ btns_next_week # 1)
    /\ (browser = "quit" \/ quit_calls > 0
          \/ \E k \in 1..Len(stdout) : stdout[k].line = "end of order period")
          => (pc = "done" /\ cnw_ret = "False")

\* C13 witness: the second week view holds no controls; the call and the
\* (empty) summary are done and the program is about to click on to the
\* third week.
C13_Witness ==
    /\ pc = "cnw_click"
    /\ page = <<>>
    /\ events = <<Ev("navigate", 0), Ev("scan_minus", 0), Ev("scan_plus", 0),
                  Ev("return", 0), Ev("print", 0)>>
    /\ stdout = <<[line |-> "navigating"]>>

\* The places of the program behind the queries at the start of the call.
AfterEntryScan == {"pno_for", "pno_while", "pno_click", "pno_sleep", "pno_rescan",
                   "main_print", "cnw_find", "cnw_click", "main_end", "done"}

C15_SetupClicksSettle ==
    (last_click \in {"login", "speiseplan"}
       /\ pc \in QueryPcs \cup {"lmp_find_speiseplan"})
          => (~unsettled /\ last_sleep = SettleDelay)

\* C16: a run that has ended after the browser was started has called
\* browser.quit() exactly once.
C16_QuitExactlyOnce ==
    (pc \in {"done", "exited", "crashed"} /\ browser # "none")
          => (quit_calls = 1 /\ browser = "quit")

\* C17: the controls recorded as existing orders are those the view showed
\* as existing when the call started, each recorded once and before the
\* first click; no control the call clicked is among them, although every
\* control whose click was taken is shown as an existing order afterwards.
C17_ExistingAndNewDisjoint ==
    pc \in AfterEntryScan \cup {"crashed"} =>
        /\ \A i \in 1..Len(Recorded), j \in 1..Len(Clicked) : Recorded[i] # Clicked[j]
        /\ \A i, j \in 1..Len(Recorded) : Recorded[i] = Recorded[j] => i = j
        /\ Len(Recorded) <= entry_minus
        /\ Len(OldSoFar) = Len(Recorded)
        /\ \A k \in 1..Len(Recorded) :
              /\ IsRecordOf(OldSoFar[k], Recorded[k])
              /\ page[Recorded[k]].kind = "minus"
        /\ \A i \in 1..Len(events) :
              events[i].ev = "record_old" => \A j \in 1..(i - 1) : events[j].ev # "click"
        /\ refusals = 0 =>
              /\ \A j \in 1..Len(Clicked) : page[Clicked[j]].kind = "minus"
              /\ pc \notin {"pno_for", "crashed"} =>
                    CountKind("minus") = Len(OldSoFar) + Len(Clicked)

\* C17 witness: a view of one existing and two placeable controls is done;
\* it shows three existing controls, one is in the existing list and the
\* two clicked ones are in the new list.
C17_Witness ==
    /\ pc = "main_print"
    /\ refusals = 0
    /\ CountKind("minus") = 3
    /\ Len(old) = 1
    /\ Len(new) = 2
    /\ Len(Recorded) = 1
    /\ Len(Clicked) = 2

\* C18: when the run has ended, every placement click on the last view has
\* its line among the newly placed orders that print_orders printed.
C18_EveryClickReported ==
    pc \in {"done", "exited", "crashed"} =>
        Len(SelectSeq(stdout, LAMBDA l : l.line = "new")) = Count("click")

====
